---- MODULE Spec2Model ----
(***************************************************************************)
(* Model of the schema core of maestro-bulker:                             *)
(*   - types.Table and Table.Diff (src/types/table.go)                     *)
(*   - types.Field / types.Fields (src/unnamed/part_000)                   *)
(*   - MixpanelBulker (src/bulkerlib/implementations/api_based/mixpanel.go)*)
(*   - ClickhouseEventsLog (src/eventslog/ch_events_log.go)                *)
(* Go maps are reference values: a Field struct that is copied from one    *)
(* Fields map into another keeps pointing at the same typeOccurrence map.  *)
(* The model therefore keeps the typeOccurrence maps in a heap (occ) and   *)
(* lets Field values carry a reference into it.                            *)
(***************************************************************************)
EXTENDS Integers, Sequences, FiniteSets, TLC

VARIABLES
    t,          \* receiver of Table.Diff: the current (live) table
    another,    \* argument of Table.Diff: the desired table, or NilTable
    diff,       \* the *Table returned by the last Table.Diff, or NilTable
    fields,     \* the Fields variables of the program: instance -> (name -> Field)
    occ,        \* heap of typeOccurrence maps: reference -> set of DataType keys
    last,       \* the operation that produced the current state
    nops,       \* number of Fields operations performed so far
    cloneOf,    \* the last c = f.Clone() and the variable operated on since
    mp,         \* the MixpanelBulker: its closed flag
    up,         \* the running or returned call of MixpanelBulker.Upload
    created,    \* what the last MixpanelBulker.CreateStream returned
    tc,         \* a Table, the *Table its Clone returned, and the heap of their maps
    el          \* the ClickhouseEventsLog, its goroutines and its callers

vars == <<t, another, diff, fields, occ, last, nops, cloneOf, mp, up, created, tc, el>>

(***************************************************************************)
(* Bounds                                                                  *)
(***************************************************************************)
\* number of distinct column names tables are built from
MaxCols == 2
\* number of distinct field names Fields instances are built from
MaxNames == 2
\* number of operations performed on the Fields variables in one run
MaxOps == 5
\* number of typeOccurrence maps in use beyond which no Field is constructed
MaxMaps == 3
\* number of entries carrying a *SQLTypeSuggestion beyond which no Field is
\* constructed with one
MaxSuggested == 1

NamePool == <<"id", "tenant", "ts", "amount">>

ColNames == {NamePool[i] : i \in 1..MaxCols}

\* SQL column descriptors (types.SQLColumn), identified by their type name
SQLColumns == {"text", "bigint"}

\* candidate primary-key field names
PKNames == {"id", "tenant"}

Schemas == {"", "public"}

TableNames == {"events"}

(***************************************************************************)
(* types.Table                                                             *)
(***************************************************************************)
NilTable == [isNil |-> TRUE]

\* Columns: a map from column name to SQLColumn
ColumnMaps == UNION {[S -> SQLColumns] : S \in SUBSET ColNames}

EmptyColumns == [n \in {} |-> "text"]

\* the zero value of DatePartition
NoPartition == "none"

Partitions == {NoPartition, "month"}

Table(schema, name, columns, pkFields, primaryKeyName, partition, deletePkFields) ==
    [Schema |-> schema, Name |-> name, Columns |-> columns, PKFields |-> pkFields,
     PrimaryKeyName |-> primaryKeyName, Partition |-> partition,
     DeletePkFields |-> deletePkFields]

\* func (t *Table) Exists() bool
Exists(tbl) ==
    IF tbl = NilTable
    THEN FALSE
    ELSE \/ Cardinality(DOMAIN tbl.Columns) > 0
         \/ Cardinality(tbl.PKFields) > 0
         \/ tbl.DeletePkFields

\* func BuildConstraintName(schemaName string, tableName string) string
BuildConstraintName(schemaName, tableName) ==
    schemaName \o "_" \o tableName \o "_pk"

\* utils.Set.Equals: equality of the two key sets
SetEquals(s1, s2) ==
    /\ Cardinality(s1) = Cardinality(s2)
    /\ \A k \in s1 : k \in s2

\* Table.Diff, lines 92-97: the columns of another that t does not have
DiffColumnsRetype(tbl, other) ==
    LET missing == {n \in DOMAIN other.Columns :
                        \/ n \notin DOMAIN tbl.Columns
                        \/ tbl.Columns[n] # other.Columns[n]}
    IN [n \in missing |-> other.Columns[n]]

DiffColumns(tbl, other) ==
    LET missing == {n \in DOMAIN other.Columns : n \notin DOMAIN tbl.Columns}
    IN [n \in missing |-> other.Columns[n]]

\* Table.Diff, lines 99-104: the primary key is not maintained by Jitsu
PKNotMaintainedNever(tbl) == FALSE

PKNotMaintained(tbl) ==
    /\ tbl.PrimaryKeyName # ""
    /\ tbl.PrimaryKeyName # BuildConstraintName(tbl.Schema, tbl.Name)

\* Table.Diff, lines 106-118: primary keys logic applied to the patch d
DiffPrimaryKeyBySize(d, tbl, other) ==
    LET jitsuPrimaryKeyName == BuildConstraintName(tbl.Schema, tbl.Name)
    IN IF Cardinality(tbl.PKFields) > 0
       THEN IF Cardinality(tbl.PKFields) # Cardinality(other.PKFields)
            THEN [d EXCEPT !.DeletePkFields = TRUE,
                           !.PKFields = other.PKFields,
                           !.PrimaryKeyName = jitsuPrimaryKeyName]
            ELSE d
       ELSE IF Cardinality(other.PKFields) > 0
            THEN [d EXCEPT !.PKFields = other.PKFields,
                           !.PrimaryKeyName = jitsuPrimaryKeyName]
            ELSE d

DiffPrimaryKeyCreateDeletes(d, tbl, other) ==
    LET jitsuPrimaryKeyName == BuildConstraintName(tbl.Schema, tbl.Name)
    IN IF Cardinality(tbl.PKFields) > 0
       THEN IF ~SetEquals(tbl.PKFields, other.PKFields)
            THEN [d EXCEPT !.DeletePkFields = TRUE,
                           !.PKFields = other.PKFields,
                           !.PrimaryKeyName = jitsuPrimaryKeyName]
            ELSE d
       ELSE IF Cardinality(other.PKFields) > 0
            THEN [d EXCEPT !.DeletePkFields = TRUE,
                           !.PKFields = other.PKFields,
                           !.PrimaryKeyName = jitsuPrimaryKeyName]
            ELSE d

DiffPrimaryKey(d, tbl, other) ==
    LET jitsuPrimaryKeyName == BuildConstraintName(tbl.Schema, tbl.Name)
    IN IF Cardinality(tbl.PKFields) > 0
       THEN IF ~SetEquals(tbl.PKFields, other.PKFields)
            THEN [d EXCEPT !.DeletePkFields = TRUE,
                           !.PKFields = other.PKFields,
                           !.PrimaryKeyName = jitsuPrimaryKeyName]
            ELSE d
       ELSE IF Cardinality(other.PKFields) > 0
            THEN [d EXCEPT !.PKFields = other.PKFields,
                           !.PrimaryKeyName = jitsuPrimaryKeyName]
            ELSE d

\* Table.Diff, lines 88-90: the early return when another does not exist
DiffReturnsEarlyOnNilOnly(other) == other = NilTable

DiffReturnsEarly(other) == ~Exists(other)

\* func (t *Table) Diff(another *Table) *Table
Diff(tbl, other) ==
    LET d0 == Table(tbl.Schema, tbl.Name, EmptyColumns, {}, "", NoPartition, FALSE)
    IN IF DiffReturnsEarly(other)
       THEN d0
       ELSE LET d1 == [d0 EXCEPT !.Columns = DiffColumns(tbl, other)]
            IN IF PKNotMaintained(tbl)
               THEN d1
               ELSE DiffPrimaryKey(d1, tbl, other)

(***************************************************************************)
(* Specification of Table.Diff: the two tables are drawn from the bounded  *)
(* input sets, one step calls t.Diff(another).                             *)
(***************************************************************************)
PrimaryKeyNames ==
    {""} \cup {BuildConstraintName(s, n) : s \in Schemas, n \in TableNames}
         \cup {"events_pkey"}

\* tables as read from a destination
CurrentTables ==
    {Table(s, n, c, pk, pkn, p, FALSE) :
        s \in Schemas, n \in TableNames, c \in ColumnMaps,
        pk \in SUBSET PKNames, pkn \in PrimaryKeyNames, p \in Partitions}

\* desired tables for the table (schema, name) and the partition p
DesiredTables(s, n, p) ==
    {Table(s, n, c, pk, "", p, del) :
        c \in ColumnMaps, pk \in SUBSET PKNames, del \in BOOLEAN}
    \cup {NilTable}

NoOp == [op |-> "init"]

TableIdle ==
    /\ t = NilTable
    /\ another = NilTable
    /\ diff = NilTable

FieldsIdle ==
    /\ fields = <<>>
    /\ occ = <<>>
    /\ nops = 0
    /\ cloneOf = <<>>

MixpanelIdle ==
    /\ mp = <<>>
    /\ up = <<>>
    /\ created = <<>>

TableCloneIdle == tc = <<>>

EventsLogIdle == el = <<>>

InitDiff ==
    /\ t \in CurrentTables
    /\ another \in DesiredTables(t.Schema, t.Name, t.Partition)
    /\ diff = NilTable
    /\ last = NoOp
    /\ FieldsIdle
    /\ MixpanelIdle
    /\ TableCloneIdle
    /\ EventsLogIdle

TableDiff ==
    /\ last = NoOp
    /\ diff' = Diff(t, another)
    /\ last' = [op |-> "Diff"]
    /\ UNCHANGED <<t, another, fields, occ, nops, cloneOf, mp, up, created, tc, el>>

NextDiff == TableDiff

SpecDiff == InitDiff /\ [][NextDiff]_vars

(***************************************************************************)
(* Table.Clone.  Columns and PKFields are Go maps, so a Table holds        *)
(* references to them: tc.columns and tc.pkFields are the heaps of the     *)
(* Columns maps and of the PKFields sets, tc.t is the Table that is        *)
(* cloned and tc.clone the *Table that Clone returned.                     *)
(***************************************************************************)
\* number of writes to the maps of the two tables after the Clone
MaxPuts == 2

\* the addresses of the maps of tc.t and of the maps Clone allocates
OriginalRef == "original"
ClonedRef == "cloned"

\* func (t *Table) Clone() *Table: st is the state [t, clone, columns, pkFields]
TableClone(st) ==
    [st EXCEPT !.clone = Table(st.t.Schema, st.t.Name, ClonedRef, ClonedRef,
                               st.t.PrimaryKeyName, NoPartition, st.t.DeletePkFields),
               !.columns[ClonedRef] = st.columns[st.t.Columns],
               !.pkFields[ClonedRef] = st.pkFields[st.t.PKFields]]

\* the table who ("t" or "clone") of the state st
TableOf(st, who) == IF who = "t" THEN st.t ELSE st.clone

\* table.Columns[name] = column, for the table who
PutColumn(st, who, name, column) ==
    [st EXCEPT !.columns[TableOf(st, who).Columns] =
                    [n \in DOMAIN @ \cup {name} |-> IF n = name THEN column ELSE @[n]]]

\* table.PKFields.Put(name), for the table who
PutPKField(st, who, name) ==
    [st EXCEPT !.pkFields[TableOf(st, who).PKFields] = @ \cup {name}]

InitClone ==
    /\ \E tbl \in CurrentTables :
          tc = [t |-> [tbl EXCEPT !.Columns = OriginalRef, !.PKFields = OriginalRef],
                clone |-> NilTable,
                columns |-> [r \in {OriginalRef, ClonedRef} |->
                                IF r = OriginalRef THEN tbl.Columns ELSE EmptyColumns],
                pkFields |-> [r \in {OriginalRef, ClonedRef} |->
                                IF r = OriginalRef THEN tbl.PKFields ELSE {}],
                op |-> "init", who |-> "none", puts |-> 0]
    /\ last = NoOp
    /\ TableIdle
    /\ FieldsIdle
    /\ MixpanelIdle
    /\ EventsLogIdle

\* tc.clone = tc.t.Clone()
TableCloneStep ==
    /\ tc.clone = NilTable
    /\ tc' = [TableClone(tc) EXCEPT !.op = "Clone"]
    /\ UNCHANGED <<t, another, diff, fields, occ, last, nops, cloneOf, mp, up, created, el>>

\* a write to the Columns map of the original or of the clone
PutColumnStep(who, name, column) ==
    /\ tc.clone # NilTable
    /\ tc.puts < MaxPuts
    /\ tc' = [PutColumn(tc, who, name, column) EXCEPT !.op = "PutColumn", !.who = who,
                                                      !.puts = @ + 1]
    /\ UNCHANGED <<t, another, diff, fields, occ, last, nops, cloneOf, mp, up, created, el>>

\* a write to the PKFields set of the original or of the clone
PutPKFieldStep(who, name) ==
    /\ tc.clone # NilTable
    /\ tc.puts < MaxPuts
    /\ tc' = [PutPKField(tc, who, name) EXCEPT !.op = "PutPKField", !.who = who,
                                               !.puts = @ + 1]
    /\ UNCHANGED <<t, another, diff, fields, occ, last, nops, cloneOf, mp, up, created, el>>

NextClone ==
    \/ TableCloneStep
    \/ \E who \in {"t", "clone"}, name \in ColNames, column \in SQLColumns :
            PutColumnStep(who, name, column)
    \/ \E who \in {"t", "clone"}, name \in PKNames : PutPKFieldStep(who, name)

SpecClone == InitClone /\ [][NextClone]_vars

(***************************************************************************)
(* types.DataType and the type lattice                                     *)
(***************************************************************************)
DataTypes == {"INT64", "FLOAT64", "TIMESTAMP", "STRING"}

\* the kinds the values of the ingested objects are observed with
ObservedTypes == {"INT64", "FLOAT64", "TIMESTAMP"}

UNKNOWN == "UNKNOWN"

\* a nil *DataType
NilType == "nil"

\* a nil *SQLTypeSuggestion
NilSuggestion == "nil"

\* the typecast tree: every kind widens to its parent, STRING is the root
ParentType ==
    [k \in DataTypes |->
        CASE k = "INT64" -> "FLOAT64"
          [] k = "FLOAT64" -> "STRING"
          [] k = "TIMESTAMP" -> "STRING"
          [] OTHER -> "STRING"]

RECURSIVE AncestorTypes(_)
AncestorTypes(k) ==
    IF k = "STRING" THEN {k} ELSE {k} \cup AncestorTypes(ParentType[k])

\* GetCommonAncestorType(t1, t2): the lowest common ancestor in the tree
RECURSIVE GetCommonAncestorType(_, _)
GetCommonAncestorType(t1, t2) ==
    IF t1 \in AncestorTypes(t2)
    THEN t1
    ELSE GetCommonAncestorType(ParentType[t1], t2)

(***************************************************************************)
(* types.Field and types.Fields                                            *)
(***************************************************************************)
\* the Fields variables of the program
InstSeq == <<"x", "y", "z">>

Inst == {InstSeq[i] : i \in 1..Len(InstSeq)}

FieldNames == {NamePool[i] : i \in 1..MaxNames}

\* The entries of all Fields variables in a fixed order
Slots == 1..(Len(InstSeq) * MaxNames)

SlotInst == [s \in Slots |-> InstSeq[((s - 1) \div MaxNames) + 1]]

SlotName == [s \in Slots |-> NamePool[((s - 1) % MaxNames) + 1]]

\* References to typeOccurrence maps.  A live map is addressed by one of the
\* entries (slots) that point at it, see Addr; the maps an operation allocates
\* get the addresses NewRefs until the operation returns.
Refs == Slots

NewRefs == {-i : i \in 1..MaxNames}

NewRef(name) == -(CHOOSE i \in 1..MaxNames : NamePool[i] = name)

\* type Field struct
Field(dataType, sqlTypeSuggestion, typeOccurrence) ==
    [dataType |-> dataType, sqlTypeSuggestion |-> sqlTypeSuggestion,
     typeOccurrence |-> typeOccurrence]

\* Fields{}
EmptyFields == [n \in {} |-> Field(NilType, NilSuggestion, 1)]

\* the entry of fs that gives its address to the map r: one fixed entry among
\* those that point at r
Addr(fs, r) ==
    CHOOSE u \in Slots :
        /\ SlotName[u] \in DOMAIN fs[SlotInst[u]]
        /\ fs[SlotInst[u]][SlotName[u]].typeOccurrence = r

\* The Go runtime frees the maps nothing points at.  Map addresses cannot be
\* observed by the program, so the heap is kept in a normal form: every live
\* map is at the address Addr gives it, every other address is empty.
Collect(fs, heap) ==
    [fields |-> [i \in Inst |->
                    [n \in DOMAIN fs[i] |->
                        [fs[i][n] EXCEPT !.typeOccurrence = Addr(fs, @)]]],
     heap |-> [a \in Refs \cup NewRefs |->
                    IF /\ a \in Refs
                       /\ SlotName[a] \in DOMAIN fs[SlotInst[a]]
                       /\ Addr(fs, fs[SlotInst[a]][SlotName[a]].typeOccurrence) = a
                    THEN heap[fs[SlotInst[a]][SlotName[a]].typeOccurrence]
                    ELSE {}]]

\* all enumeration orders of a set (Go's map iteration order is unspecified)
Orders(S) ==
    {s \in [1..Cardinality(S) -> S] : \A a, b \in 1..Cardinality(S) : s[a] = s[b] => a = b}

\* func NewField(t DataType) Field, with the occurrence map allocated at r
NewField(k, r) == Field(k, NilSuggestion, r)

\* the *SQLTypeSuggestion values the program builds Fields with
SQLTypeSuggestions == {"suggestion"}

\* func NewFieldWithSQLType(t DataType, sqlTypeSuggestion *SQLTypeSuggestion) Field
NewFieldWithSQLType(k, sqlTypeSuggestion, r) == Field(k, sqlTypeSuggestion, r)

\* Field.GetType, lines 156-159: fold of the common ancestor over types
FoldCommonKeepsLast(common, types, i) == types[Len(types)]

RECURSIVE FoldCommon(_, _, _)
FoldCommon(common, types, i) ==
    IF i > Len(types)
    THEN common
    ELSE FoldCommon(GetCommonAncestorType(common, types[i]), types, i + 1)

\* func (f Field) GetType() DataType: the values it can return, one per
\* enumeration order of f.typeOccurrence.  The receiver is a copy, so the
\* assignment f.dataType = &common never reaches the caller's Field.
GetType(f, heap) ==
    IF f.dataType # NilType
    THEN {f.dataType}
    ELSE IF heap[f.typeOccurrence] = {}
         THEN {UNKNOWN}
         ELSE {FoldCommon(types[1], types, 2) : types \in Orders(heap[f.typeOccurrence])}

\* func (f *Field) Merge(anotherField *Field): the new *f and the new heap
FieldMergeKeepsType(f, g, heap) ==
    [field |-> f,
     heap |-> [heap EXCEPT ![f.typeOccurrence] = @ \cup heap[g.typeOccurrence]]]

FieldMerge(f, g, heap) ==
    LET added == heap[g.typeOccurrence] \ heap[f.typeOccurrence]
    IN [field |-> IF added # {} THEN [f EXCEPT !.dataType = NilType] ELSE f,
        heap |-> [heap EXCEPT ![f.typeOccurrence] = @ \cup added]]

\* func (f Fields) Merge(other Fields), other enumerated in the order names;
\* st = [fields, heap] is the program state, self and other name the variables
RECURSIVE FieldsMergeFrom(_, _, _, _, _)
FieldsMergeFrom(st, self, other, names, i) ==
    IF i > Len(names)
    THEN st
    ELSE LET otherName == names[i]
             otherField == st.fields[other][otherName]
         IN IF otherName \in DOMAIN st.fields[self]
            THEN LET m == FieldMerge(st.fields[self][otherName], otherField, st.heap)
                 IN FieldsMergeFrom(
                        [fields |-> [st.fields EXCEPT ![self] =
                                        [n \in DOMAIN @ |-> IF n = otherName THEN m.field ELSE @[n]]],
                         heap |-> m.heap],
                        self, other, names, i + 1)
            ELSE FieldsMergeFrom(
                        [fields |-> [st.fields EXCEPT ![self] =
                                        [n \in DOMAIN @ \cup {otherName} |->
                                            IF n = otherName THEN otherField ELSE @[n]]],
                         heap |-> st.heap],
                        self, other, names, i + 1)

FieldsMerge(st, self, other, names) == FieldsMergeFrom(st, self, other, names, 1)

\* func (f Fields) Add(other Fields)
FieldsAddOverwrites(fs, self, other) ==
    [fs EXCEPT ![self] =
        [n \in DOMAIN fs[self] \cup DOMAIN fs[other] |->
            IF n \in DOMAIN fs[other] THEN fs[other][n] ELSE fs[self][n]]]

FieldsAdd(fs, self, other) ==
    [fs EXCEPT ![self] =
        [n \in DOMAIN fs[self] \cup DOMAIN fs[other] |->
            IF n \in DOMAIN fs[self] THEN fs[self][n] ELSE fs[other][n]]]

\* func (f Fields) OverrideTypes(other Fields)
FieldsOverrideTypesKeepsType(fs, self, other) ==
    [fs EXCEPT ![self] =
        [n \in DOMAIN fs[self] |->
            IF n \in DOMAIN fs[other]
            THEN [fs[self][n] EXCEPT !.typeOccurrence = fs[other][n].typeOccurrence]
            ELSE fs[self][n]]]

FieldsOverrideTypes(fs, self, other) ==
    [fs EXCEPT ![self] =
        [n \in DOMAIN fs[self] |->
            IF n \in DOMAIN fs[other]
            THEN [fs[self][n] EXCEPT !.typeOccurrence = fs[other][n].typeOccurrence,
                                     !.dataType = fs[other][n].dataType]
            ELSE fs[self][n]]]

\* func (f Fields) Clone() Fields, the result stored in the variable into;
\* names is the enumeration order of f
RECURSIVE FieldsCloneFrom(_, _, _, _, _)
FieldsCloneFrom(st, self, into, names, i) ==
    IF i > Len(names)
    THEN st
    ELSE LET fieldName == names[i]
             fieldPayload == st.src[fieldName]
             r == NewRef(fieldName)
         IN FieldsCloneFrom(
                [src |-> st.src,
                 fields |-> [st.fields EXCEPT ![into] =
                                [n \in DOMAIN @ \cup {fieldName} |->
                                    IF n = fieldName
                                    THEN Field(fieldPayload.dataType, NilSuggestion, r)
                                    ELSE @[n]]],
                 heap |-> [st.heap EXCEPT ![r] = st.heap[fieldPayload.typeOccurrence]]],
                self, into, names, i + 1)

FieldsCloneNoOccurrences(fs, heap, self, into, names) ==
    LET st == FieldsCloneFrom([src |-> fs[self],
                               fields |-> [fs EXCEPT ![into] = EmptyFields],
                               heap |-> heap],
                              self, into, names, 1)
    IN [st EXCEPT !.heap = [a \in DOMAIN @ |-> IF a \in NewRefs THEN {} ELSE @[a]]]

FieldsClone(fs, heap, self, into, names) ==
    FieldsCloneFrom([src |-> fs[self],
                     fields |-> [fs EXCEPT ![into] = EmptyFields],
                     heap |-> heap],
                    self, into, names, 1)

(***************************************************************************)
(* Specification of Field/Fields: the program owns the Fields variables of *)
(* Inst, all empty at first, and applies the operations of part_000 to     *)
(* them in any order.                                                      *)
(***************************************************************************)
\* no c = f.Clone() is being followed
NoClone == [src |-> "none", into |-> "none", side |-> "none"]

\* The clone being followed after the operation op.  into = src.Clone()
\* starts following the pair (src, into); the pair is followed for as long
\* as the operations after it are Merge, Add and OverrideTypes applied to
\* one and the same variable of the pair, which side records.
CloneTrack(op) ==
    IF op.op = "Clone"
    THEN [src |-> op.self, into |-> op.other, side |-> "none"]
    ELSE IF /\ cloneOf # NoClone
            /\ op.op \in {"Merge", "Add", "OverrideTypes"}
            /\ op.self = cloneOf.into
            /\ cloneOf.side \in {"none", "into"}
         THEN [cloneOf EXCEPT !.side = "into"]
         ELSE IF /\ cloneOf # NoClone
                 /\ op.op \in {"Merge", "Add", "OverrideTypes"}
                 /\ op.self = cloneOf.src
                 /\ cloneOf.side \in {"none", "src"}
              THEN [cloneOf EXCEPT !.side = "src"]
              ELSE NoClone

InitFields ==
    /\ fields = [i \in Inst |-> EmptyFields]
    /\ occ = [r \in Refs \cup NewRefs |-> {}]
    /\ last = NoOp
    /\ nops = 0
    /\ cloneOf = NoClone
    /\ TableIdle
    /\ MixpanelIdle
    /\ TableCloneIdle
    /\ EventsLogIdle

Step(op, fs, heap) ==
    /\ \E f \in {fs}, h \in {heap} :
          \E st \in {Collect(f, h)} :
              /\ fields' = st.fields
              /\ occ' = st.heap
    /\ nops' = nops + 1
    /\ last' = op
    /\ cloneOf' = CloneTrack(op)
    /\ UNCHANGED <<t, another, diff, mp, up, created, tc, el>>

\* The variables and the names are interchangeable, so the program is taken
\* to fill them in a fixed order: it builds a Field under a name only when
\* the names before it are in use, and in a variable only when the variables
\* before it are not empty.  It builds one while fewer than MaxMaps
\* typeOccurrence maps are in use.
InOrder(self, name) ==
    /\ Cardinality({fields[SlotInst[u]][SlotName[u]].typeOccurrence :
                        u \in {v \in Slots : SlotName[v] \in DOMAIN fields[SlotInst[v]]}}) < MaxMaps
    /\ \A j \in 1..Len(InstSeq) :
          (\E i \in (j + 1)..Len(InstSeq) : InstSeq[i] = self) => fields[InstSeq[j]] # EmptyFields
    /\ \A j \in 1..MaxNames :
          (\E i \in (j + 1)..MaxNames : NamePool[i] = name) =>
              \E v \in Inst : NamePool[j] \in DOMAIN fields[v]

\* self[name] = NewField(k), for a name self does not hold yet
NewFieldStep(self, name, k) ==
    /\ nops < MaxOps
    /\ name \notin DOMAIN fields[self]
    /\ InOrder(self, name)
    /\ LET r == NewRef(name)
           fs == [fields EXCEPT ![self] =
                    [n \in DOMAIN @ \cup {name} |-> IF n = name THEN NewField(k, r) ELSE @[n]]]
       IN Step([op |-> "NewField"],
               fs, [occ EXCEPT ![r] = {k}])

\* the destination types GetSuggestedSQLType is asked about
DestinationTypes == {"postgres", "mysql"}

\* the zero value SQLColumn{}
ZeroSQLColumn == [Type |-> "", ColumnType |-> "", Override |-> FALSE]

\* the SQLTypeSuggestion struct a *SQLTypeSuggestion points at: a general
\* sqlType and a sqlTypePerDestination map that knows one destination
SQLTypeSuggestionAt ==
    [p \in SQLTypeSuggestions |->
        [sqlType |-> [Type |-> "text", ColumnType |-> "text", Override |-> FALSE],
         sqlTypePerDestination |->
            [d \in {"postgres"} |-> [Type |-> "jsonb", ColumnType |-> "jsonb", Override |-> FALSE]]]]

\* func (f Field) GetSuggestedSQLType(destinationType string) (SQLColumn, bool)
GetSuggestedSQLType(f, destinationType) ==
    IF f.sqlTypeSuggestion # NilSuggestion
    THEN LET s == SQLTypeSuggestionAt[f.sqlTypeSuggestion]
             found == destinationType \in DOMAIN s.sqlTypePerDestination
             ok == found \/ s.sqlType.Type # ""
             sqlType == IF found THEN s.sqlTypePerDestination[destinationType] ELSE s.sqlType
         IN IF ok
            THEN [column |-> [Type |-> sqlType.Type, ColumnType |-> sqlType.ColumnType,
                              Override |-> TRUE],
                  ok |-> TRUE]
            ELSE [column |-> ZeroSQLColumn, ok |-> FALSE]
    ELSE [column |-> ZeroSQLColumn, ok |-> FALSE]

\* self[name] = NewFieldWithSQLType(k, s), for a name self does not hold yet
\* and while fewer than MaxSuggested entries carry a suggestion
NewFieldWithSQLTypeStep(self, name, k, s) ==
    /\ nops < MaxOps
    /\ name \notin DOMAIN fields[self]
    /\ InOrder(self, name)
    /\ Cardinality({u \in Slots : /\ SlotName[u] \in DOMAIN fields[SlotInst[u]]
                                  /\ fields[SlotInst[u]][SlotName[u]].sqlTypeSuggestion # NilSuggestion})
            < MaxSuggested
    /\ LET r == NewRef(name)
           fs == [fields EXCEPT ![self] =
                    [n \in DOMAIN @ \cup {name} |->
                        IF n = name THEN NewFieldWithSQLType(k, s, r) ELSE @[n]]]
       IN Step([op |-> "NewFieldWithSQLType"],
               fs, [occ EXCEPT ![r] = {k}])

\* self.Merge(other)
FieldsMergeStep(self, other) ==
    /\ nops < MaxOps
    /\ \E names \in Orders(DOMAIN fields[other]) :
        LET st == FieldsMerge([fields |-> fields, heap |-> occ], self, other, names)
        IN Step([op |-> "Merge", self |-> self, other |-> other], st.fields, st.heap)

\* self.Add(other)
FieldsAddStep(self, other) ==
    /\ nops < MaxOps
    /\ Step([op |-> "Add", self |-> self, other |-> other],
            FieldsAdd(fields, self, other), occ)

\* self.OverrideTypes(other)
FieldsOverrideTypesStep(self, other) ==
    /\ nops < MaxOps
    /\ Step([op |-> "OverrideTypes", self |-> self, other |-> other],
            FieldsOverrideTypes(fields, self, other), occ)

\* into = self.Clone()
FieldsCloneStep(self, into) ==
    /\ nops < MaxOps
    /\ self # into
    /\ \E names \in Orders(DOMAIN fields[self]) :
        LET st == FieldsClone(fields, occ, self, into, names)
        IN Step([op |-> "Clone", self |-> self, other |-> into], st.fields, st.heap)

\* self[name].GetType()
GetTypeStep(self, name) ==
    /\ nops < MaxOps
    /\ name \in DOMAIN fields[self]
    /\ \E ret \in GetType(fields[self][name], occ) :
        last' = [op |-> "GetType", self |-> self, name |-> name, ret |-> ret]
    /\ nops' = nops + 1
    /\ UNCHANGED <<fields, occ, cloneOf, t, another, diff, mp, up, created, tc, el>>

NextFields ==
    \/ \E self \in Inst, name \in FieldNames, k \in ObservedTypes : NewFieldStep(self, name, k)
    \/ \E self \in Inst, name \in FieldNames, k \in ObservedTypes, s \in SQLTypeSuggestions :
            NewFieldWithSQLTypeStep(self, name, k, s)
    \/ \E self, other \in Inst : FieldsMergeStep(self, other)
    \/ \E self, other \in Inst : FieldsAddStep(self, other)
    \/ \E self, other \in Inst : FieldsOverrideTypesStep(self, other)
    \/ \E self, into \in Inst : FieldsCloneStep(self, into)
    \/ \E self \in Inst, name \in FieldNames : GetTypeStep(self, name)

SpecFields == InitFields /\ [][NextFields]_vars

(***************************************************************************)
(* MixpanelBulker: CreateStream, Upload and Close of mixpanel.go.  Upload  *)
(* is modelled one iteration of its retry loop at a time, so that Close    *)
(* can run between two attempts.                                           *)
(***************************************************************************)
\* bulker.BulkMode: the four modes of bulkerlib and a value that is none of them
Stream == "stream"
Batch == "batch"
ReplaceTable == "replace_table"
ReplacePartition == "replace_partition"
UnknownMode == "unknown"
BulkModes == {Stream, Batch, ReplaceTable, ReplacePartition, UnknownMode}

\* const MixpanelUnsupported
MixpanelUnsupported == "Only 'batch' mode is supported"

\* the nil error
NilError == [format |-> "nil", args |-> <<>>]

\* errors.New(text)
ErrorsNew(text) == [format |-> text, args |-> <<>>]

\* fmt.Errorf(format, args...) and mp.NewError(format, args...): the error
\* keeps the format and the values formatted into it
Errorf(format, args) == [format |-> format, args |-> args]

\* no CreateStream has returned yet
NoStream == [mode |-> "none", stream |-> FALSE, err |-> NilError]

\* func (mp *MixpanelBulker) CreateStream(id, tableName, mode, ...): what it
\* returns; built tells whether NewTransactionalStream returns a stream
CreateStreamAcceptsStream(mode, built) ==
    CASE mode \in {Stream, Batch} ->
            IF built
            THEN [mode |-> mode, stream |-> TRUE, err |-> NilError]
            ELSE [mode |-> mode, stream |-> FALSE, err |-> ErrorsNew("NewTransactionalStream failed")]
      [] mode \in {ReplaceTable, ReplacePartition} ->
            [mode |-> mode, stream |-> FALSE, err |-> ErrorsNew(MixpanelUnsupported)]
      [] OTHER ->
            [mode |-> mode, stream |-> FALSE, err |-> Errorf("unsupported bulk mode: %s", <<mode>>)]

CreateStream(mode, built) ==
    CASE mode = Stream ->
            [mode |-> mode, stream |-> FALSE, err |-> ErrorsNew(MixpanelUnsupported)]
      [] mode = Batch ->
            IF built
            THEN [mode |-> mode, stream |-> TRUE, err |-> NilError]
            ELSE [mode |-> mode, stream |-> FALSE, err |-> ErrorsNew("NewTransactionalStream failed")]
      [] mode = ReplaceTable ->
            [mode |-> mode, stream |-> FALSE, err |-> ErrorsNew(MixpanelUnsupported)]
      [] mode = ReplacePartition ->
            [mode |-> mode, stream |-> FALSE, err |-> ErrorsNew(MixpanelUnsupported)]
      [] OTHER ->
            [mode |-> mode, stream |-> FALSE, err |-> Errorf("unsupported bulk mode: %s", <<mode>>)]

\* var retryDelaysMs
retryDelaysMsShort == <<100, 200, 200, 500>>

retryDelaysMs == <<100, 200, 200, 500, 0>>

\* the HTTP status codes the server answers with
Statuses == {200, 400, 404, 500, 502, 503, 504}

\* the response bodies the server answers with; the second holds the text
\* Upload looks for in the body of a 400
Bodies == {"{}", "{\"error\": \"some data points in the request failed validation\"}"}

\* strings.Contains(respBody, "some data points in the request failed validation")
FailedValidation(respBody) ==
    respBody = "{\"error\": \"some data points in the request failed validation\"}"

\* what one mp.httpClient.Do(req) and the read of its body can end in: a
\* transport error, or a response whose body was read fully or not
Outcomes ==
    {[transport |-> TRUE, statusCode |-> 0, respBody |-> "", readFailed |-> FALSE]}
        \cup [transport : {FALSE}, statusCode : Statuses, respBody : Bodies, readFailed : BOOLEAN]

\* case 500, 502, 503 of the switch on statusCode
RetriedAlso404(statusCode) == statusCode \in {404, 500, 502, 503}

Retried(statusCode) == statusCode \in {500, 502, 503}

\* no Upload is running
IdleUpload ==
    [pc |-> "idle", i |-> 1, statusCode |-> 0, respBody |-> "", err |-> NilError,
     attempts |-> <<>>, slept |-> <<>>]

\* an Upload that has returned (statusCode, respBody, err)
Returned(u, statusCode, respBody, err) ==
    [u EXCEPT !.pc = "returned", !.statusCode = statusCode, !.respBody = respBody, !.err = err]

\* Upload, lines 72-79: the closed check and the read of the request body
UploadBegin(closed, readFailed) ==
    IF closed
    THEN Returned(IdleUpload, 0, "", Errorf("attempt to use closed Mixpanel instance", <<>>))
    ELSE IF readFailed
         THEN Returned(IdleUpload, 0, "", Errorf("failed to read request body: %v", <<"read error">>))
         ELSE [IdleUpload EXCEPT !.pc = "loop"]

\* Upload, lines 80-128: the iteration u.i of the loop over retryDelaysMs
\* with the outcome o of its request, and the return after the last one.
\* http.NewRequest gets a constant method and a well-formed URL and does not
\* fail.  attempts lists the status of every request made (0 for a
\* transport error), slept the delays waited.
UploadAttempt(u, o) ==
    LET retryDelayMs == retryDelaysMs[u.i]
        errText == IF o.readFailed THEN "unexpected EOF" ELSE ""
        seen == Append(u.attempts, o.statusCode)
        Continue(statusCode, respBody, err) ==
            [pc |-> IF u.i = Len(retryDelaysMs) THEN "returned" ELSE "loop",
             i |-> u.i + 1,
             statusCode |-> statusCode, respBody |-> respBody, err |-> err,
             attempts |-> seen,
             slept |-> Append(u.slept, retryDelayMs)]
        Return(statusCode, respBody, err) ==
            Returned([u EXCEPT !.attempts = seen], statusCode, respBody, err)
        StatusError == Errorf("http status: %v%s", <<o.statusCode, errText>>)
    IN IF o.transport
       THEN Continue(0, "", ErrorsNew("transport error"))
       ELSE IF o.statusCode = 200
            THEN Return(o.statusCode, o.respBody, NilError)
            ELSE IF o.statusCode = 400
                 THEN IF FailedValidation(o.respBody)
                      THEN Return(o.statusCode, o.respBody, NilError)
                      ELSE Return(o.statusCode, o.respBody, StatusError)
                 ELSE IF Retried(o.statusCode)
                      THEN Continue(o.statusCode, o.respBody, StatusError)
                      ELSE Return(o.statusCode, o.respBody, StatusError)

(***************************************************************************)
(* Specification of MixpanelBulker: one bulker, its streams being created, *)
(* one caller of Upload at a time, and Close at any moment.                *)
(***************************************************************************)
InitMixpanel ==
    /\ mp = [closed |-> FALSE]
    /\ up = IdleUpload
    /\ created = NoStream
    /\ last = NoOp
    /\ TableIdle
    /\ FieldsIdle
    /\ TableCloneIdle
    /\ EventsLogIdle

\* mp.CreateStream(id, tableName, mode)
CreateStreamStep(mode, built) ==
    /\ created' = CreateStream(mode, built)
    /\ UNCHANGED <<mp, up, last, t, another, diff, fields, occ, nops, cloneOf, tc, el>>

\* mp.Upload(reader, ...) is called and reaches its loop, or returns before it
UploadStep(readFailed) ==
    /\ up.pc \in {"idle", "returned"}
    /\ up' = UploadBegin(mp.closed, readFailed)
    /\ UNCHANGED <<mp, created, last, t, another, diff, fields, occ, nops, cloneOf, tc, el>>

\* one iteration of the loop of Upload
UploadAttemptStep(o) ==
    /\ up.pc = "loop"
    /\ up' = UploadAttempt(up, o)
    /\ UNCHANGED <<mp, created, last, t, another, diff, fields, occ, nops, cloneOf, tc, el>>

\* mp.Close()
CloseStep ==
    /\ mp' = [mp EXCEPT !.closed = TRUE]
    /\ UNCHANGED <<up, created, last, t, another, diff, fields, occ, nops, cloneOf, tc, el>>

NextMixpanel ==
    \/ \E mode \in BulkModes, built \in BOOLEAN : CreateStreamStep(mode, built)
    \/ \E readFailed \in BOOLEAN : UploadStep(readFailed)
    \/ \E o \in Outcomes : UploadAttemptStep(o)
    \/ CloseStep

SpecMixpanel == InitMixpanel /\ [][NextMixpanel]_vars

(***************************************************************************)
(* ClickhouseEventsLog (ch_events_log.go): the goroutine Start launches,   *)
(* callers of PostAsync and callers of Close.  el.mutex is the embedded    *)
(* sync.Mutex, el.flusher the position of the goroutine, el.posters and    *)
(* el.closers the positions of the callers.  closeChan is unbuffered: a    *)
(* send on it completes only together with the receive in the goroutine's  *)
(* select.  el.acquired, el.taken and el.sent record what happened: the    *)
(* events in the order PostAsync acquired the mutex, the batches flush     *)
(* copied from the buffer, and the batches batch.Send accepted.            *)
(***************************************************************************)
\* number of goroutines calling PostAsync with an event of their own
MaxEvents == 3
\* number of goroutines calling Close
MaxClosers == 2

\* the nil *ActorEvent
NilEvent == 0

\* the callers of PostAsync: caller p posts the event p, caller 0 posts nil
Posters == 0..MaxEvents

Closers == 1..MaxClosers

\* how conn.PrepareBatch, batch.Append (for the first event of the batch) and
\* batch.Send can end
FlushOutcomes == {"prepare failed", "append failed", "send failed", "sent"}

\* flush, lines 96-98: the copy of the buffer and the buffer after it
FlushTakeKeepsBuffer(eventsBuffer) ==
    [bufferCopy |-> eventsBuffer, eventsBuffer |-> eventsBuffer]

FlushTake(eventsBuffer) ==
    [bufferCopy |-> eventsBuffer, eventsBuffer |-> <<>>]

\* flush, lines 100-124: the batch the connection accepts, if any
FlushSend(bufferCopy, outcome) ==
    CASE outcome = "prepare failed" -> <<>>
      [] outcome = "send failed" -> <<>>
      [] outcome = "append failed" -> <<Tail(bufferCopy)>>
      [] OTHER -> <<bufferCopy>>

\* NewClickhouseEventsLog, lines 63-70: an empty buffer, the goroutine started
InitEventsLog ==
    /\ el = [eventsBuffer |-> <<>>, mutex |-> "free", flusher |-> "select",
             bufferCopy |-> <<>>,
             posters |-> [p \in Posters |-> "idle"],
             closers |-> [c \in Closers |-> "idle"],
             connClosed |-> FALSE,
             acquired |-> <<>>, taken |-> <<>>, sent |-> <<>>]
    /\ last = NoOp
    /\ TableIdle
    /\ FieldsIdle
    /\ MixpanelIdle
    /\ TableCloneIdle

EventsLogStep(next) ==
    /\ el' = next
    /\ UNCHANGED <<t, another, diff, fields, occ, last, nops, cloneOf, mp, up, created, tc>>

\* PostAsync(event) is called: it returns at once for nil, line 128-130,
\* and otherwise goes for the mutex
PostAsyncStep(p) ==
    /\ el.posters[p] = "idle"
    /\ EventsLogStep([el EXCEPT !.posters[p] = IF p = NilEvent THEN "returned" ELSE "lock"])

\* PostAsync, line 131: r.Lock()
PostLockStep(p) ==
    /\ el.posters[p] = "lock"
    /\ el.mutex = "free"
    /\ EventsLogStep([el EXCEPT !.posters[p] = "locked", !.mutex = "poster",
                                !.acquired = Append(@, p)])

\* PostAsync, lines 132-134: the append, and the deferred r.Unlock()
PostAppendStep(p) ==
    /\ el.posters[p] = "locked"
    /\ EventsLogStep([el EXCEPT !.posters[p] = "returned", !.mutex = "free",
                                !.eventsBuffer = Append(@, p)])

\* Start, lines 79-81: the ticker fires and the goroutine calls flush
TickStep ==
    /\ el.flusher = "select"
    /\ EventsLogStep([el EXCEPT !.flusher = "lock"])

\* flush, line 90: r.Lock()
FlushLockStep ==
    /\ el.flusher = "lock"
    /\ el.mutex = "free"
    /\ EventsLogStep([el EXCEPT !.flusher = "locked", !.mutex = "flusher"])

\* flush, lines 91-99: return on an empty buffer, else copy and clear it
FlushTakeStep ==
    /\ el.flusher = "locked"
    /\ IF Len(el.eventsBuffer) = 0
       THEN EventsLogStep([el EXCEPT !.flusher = "select", !.mutex = "free"])
       ELSE LET took == FlushTake(el.eventsBuffer)
            IN EventsLogStep([el EXCEPT !.flusher = "send", !.mutex = "free",
                                        !.bufferCopy = took.bufferCopy,
                                        !.eventsBuffer = took.eventsBuffer,
                                        !.taken = Append(@, took.bufferCopy)])

\* flush, lines 100-125: prepare, append and send the batch, then return
FlushSendStep(outcome) ==
    /\ el.flusher = "send"
    /\ (el.connClosed => outcome = "prepare failed")
    /\ EventsLogStep([el EXCEPT !.flusher = "select", !.bufferCopy = <<>>,
                                !.sent = @ \o FlushSend(el.bufferCopy, outcome)])

\* Close is called and reaches line 152: r.closeChan <- struct{}{}
EventsLogCloseStep(c) ==
    /\ el.closers[c] = "idle"
    /\ EventsLogStep([el EXCEPT !.closers[c] = "send"])

\* the send of line 152 meets the receive of line 82: the goroutine returns
CloseChanStep(c) ==
    /\ el.closers[c] = "send"
    /\ el.flusher = "select"
    /\ EventsLogStep([el EXCEPT !.closers[c] = "sent", !.flusher = "exited"])

\* Close, lines 153-154: r.conn.Close() and the return
CloseConnStep(c) ==
    /\ el.closers[c] = "sent"
    /\ EventsLogStep([el EXCEPT !.closers[c] = "returned", !.connClosed = TRUE])

NextEventsLog ==
    \/ \E p \in Posters : PostAsyncStep(p)
    \/ \E p \in Posters : PostLockStep(p)
    \/ \E p \in Posters : PostAppendStep(p)
    \/ TickStep
    \/ FlushLockStep
    \/ FlushTakeStep
    \/ \E outcome \in FlushOutcomes : FlushSendStep(outcome)
    \/ \E c \in Closers : EventsLogCloseStep(c)
    \/ \E c \in Closers : CloseChanStep(c)
    \/ \E c \in Closers : CloseConnStep(c)

SpecEventsLog == InitEventsLog /\ [][NextEventsLog]_vars

(***************************************************************************)
(* Claims about Table.Diff (checked under SpecDiff)                        *)
(***************************************************************************)
DiffDone == last.op = "Diff"

\* the name "<schema>_<table>_pk" the system gives to the constraints it creates
SystemPKName == t.Schema \o "_" \o t.Name \o "_pk"

ExternalPK == t.PrimaryKeyName # "" /\ t.PrimaryKeyName # SystemPKName

\* names of the columns the desired table has and the current table lacks
MissingColumnNames ==
    IF another = NilTable
    THEN {}
    ELSE {n \in DOMAIN another.Columns : n \notin DOMAIN t.Columns}

DesiredPK == IF another = NilTable THEN {} ELSE another.PKFields

NoPKChange ==
    /\ diff.DeletePkFields = FALSE
    /\ diff.PKFields = {}
    /\ diff.PrimaryKeyName = ""

\* C1: for a desired table that exists, the patch's columns are exactly the
\* columns of desired that current lacks, each with desired's descriptor; a
\* column present in both is never in the patch, even when its type differs.
C1_DiffColumnsAdditive ==
    (DiffDone /\ Exists(another)) =>
        /\ DOMAIN diff.Columns = MissingColumnNames
        /\ \A n \in DOMAIN diff.Columns : diff.Columns[n] = another.Columns[n]
        /\ \A n \in DOMAIN t.Columns : n \notin DOMAIN diff.Columns

C1_Witness ==
    /\ DiffDone
    /\ Exists(another)
    /\ \E n \in DOMAIN t.Columns \cap DOMAIN another.Columns :
            t.Columns[n] # another.Columns[n]
    /\ DOMAIN diff.Columns # {}

\* C2: when desired does not exist (nil, or no columns, no PK fields and no
\* delete-flag) the patch is empty for every current table: no columns, no PK
\* fields, no constraint name, delete-flag false, patch.Exists() false.
C2_DiffEmptyWhenDesiredAbsent ==
    (DiffDone /\ ~Exists(another)) =>
        /\ DOMAIN diff.Columns = {}
        /\ NoPKChange
        /\ ~Exists(diff)

C2_Witness ==
    /\ DiffDone
    /\ another # NilTable
    /\ ~Exists(another)
    /\ t.PKFields # {}
    /\ ~ExternalPK
    /\ ~Exists(diff)

\* C3: when current's constraint name is non-empty and not the system name,
\* the patch carries no primary-key change for any desired table, and its
\* columns are still the missing columns.
C3_DiffKeepsExternalPK ==
    (DiffDone /\ ExternalPK) =>
        /\ NoPKChange
        /\ DOMAIN diff.Columns = MissingColumnNames

C3_Witness ==
    /\ DiffDone
    /\ ExternalPK
    /\ t.PKFields # {}
    /\ DesiredPK # {}
    /\ DesiredPK # t.PKFields
    /\ DOMAIN diff.Columns # {}

\* C4: current has a system-managed (or empty) constraint name and PK fields,
\* desired exists: the patch is a delete-and-recreate with desired's PK fields
\* and the system name exactly when the two PK sets differ as sets; otherwise
\* it carries no PK change.
C4_DiffRecreatesPK ==
    (DiffDone /\ ~ExternalPK /\ t.PKFields # {} /\ Exists(another)) =>
        IF another.PKFields # t.PKFields
        THEN /\ diff.DeletePkFields = TRUE
             /\ diff.PKFields = another.PKFields
             /\ diff.PrimaryKeyName = SystemPKName
        ELSE NoPKChange

C4_Witness ==
    /\ DiffDone
    /\ t.PrimaryKeyName = SystemPKName
    /\ t.PKFields = {"id"}
    /\ Exists(another)
    /\ another.PKFields = {"tenant"}
    /\ diff.DeletePkFields = TRUE
    /\ diff.PKFields = {"tenant"}

\* C5: current has no PK fields and a system-managed (or empty) constraint
\* name: if desired has PK fields the patch creates them under the system name
\* without the delete-flag; if desired has none, the patch has no PK change.
C5_DiffCreatesPK ==
    (DiffDone /\ ~ExternalPK /\ t.PKFields = {}) =>
        IF DesiredPK # {}
        THEN /\ diff.PKFields = DesiredPK
             /\ diff.PrimaryKeyName = SystemPKName
             /\ diff.DeletePkFields = FALSE
        ELSE NoPKChange

C5_Witness ==
    /\ DiffDone
    /\ ~ExternalPK
    /\ t.PKFields = {}
    /\ DesiredPK = {"id"}
    /\ diff.PKFields = {"id"}
    /\ diff.DeletePkFields = FALSE

(***************************************************************************)
(* Claims about Field and Fields (checked under SpecFields)                *)
(***************************************************************************)
\* the occurrence set of the entry name of the variable i in the state (fs, heap)
OccOf(fs, heap, i, name) == heap[fs[i][name].typeOccurrence]

\* the cached type of that entry, NilType when unresolved
CachedOf(fs, i, name) == fs[i][name].dataType

\* the lattice join of a non-empty set of kinds: its least upper bound in the
\* order in which every kind is below its ancestors
LatticeJoin(S) ==
    LET upper == {u \in DataTypes : \A k \in S : u \in AncestorTypes(k)}
    IN CHOOSE u \in upper : \A v \in upper : v \in AncestorTypes(u)

\* self.Merge(other) has just returned
MergeDone == last.op = "Merge"

\* self.Add(other) has just returned
AddDone == last.op = "Add"

\* C6: in every reachable state, every Field whose cached type is set has a
\* cached type equal to the lattice join of the kinds in its occurrence set.
C6_CachedTypeIsJoin ==
    \A i \in Inst : \A n \in DOMAIN fields[i] :
        CachedOf(fields, i, n) # NilType =>
            CachedOf(fields, i, n) = LatticeJoin(OccOf(fields, occ, i, n))

\* C7: f.Merge(g), as Fields.Merge calls it for a name held by self and other:
\* f's occurrence set becomes its old set united with g's; f's cached type is
\* reset exactly when g had a kind that f lacked and is otherwise kept; g's
\* occurrence set and cached type do not change.
C7_FieldMergePost ==
    [][last'.op = "Merge" =>
        \A n \in DOMAIN fields[last'.self] \cap DOMAIN fields[last'.other] :
            LET fOcc == OccOf(fields, occ, last'.self, n)
                gOcc == OccOf(fields, occ, last'.other, n)
            IN /\ OccOf(fields', occ', last'.self, n) = fOcc \cup gOcc
               /\ CachedOf(fields', last'.self, n) =
                    (IF gOcc \subseteq fOcc THEN CachedOf(fields, last'.self, n) ELSE NilType)
               /\ n \in DOMAIN fields'[last'.other]
               /\ OccOf(fields', occ', last'.other, n) = gOcc
               /\ CachedOf(fields', last'.other, n) = CachedOf(fields, last'.other, n)]_vars

C7_Witness ==
    /\ MergeDone
    /\ \E n \in DOMAIN fields[last.self] \cap DOMAIN fields[last.other] :
          /\ CachedOf(fields, last.self, n) = NilType
          /\ CachedOf(fields, last.other, n) # NilType
          /\ OccOf(fields, occ, last.other, n) # OccOf(fields, occ, last.self, n)
          /\ OccOf(fields, occ, last.other, n) \subseteq OccOf(fields, occ, last.self, n)

\* C8: for a name held by self and other, the value of f.GetType() after
\* f.Merge(g) is join(f.GetType() before the merge, g.GetType()).
C8_MergedTypeIsJoinOfTypes ==
    [][last'.op = "Merge" =>
        \A n \in DOMAIN fields[last'.self] \cap DOMAIN fields[last'.other] :
            \A after \in GetType(fields'[last'.self][n], occ') :
            \A preType \in GetType(fields[last'.self][n], occ) :
            \A gType \in GetType(fields[last'.other][n], occ) :
                after = GetCommonAncestorType(preType, gType)]_vars

\* names, occurrence sets and cached types after self.Merge(other)
FieldsMergeStructure ==
    LET self == last'.self
        other == last'.other
    IN /\ DOMAIN fields'[self] = DOMAIN fields[self] \cup DOMAIN fields[other]
       /\ \A n \in DOMAIN fields[self] \cap DOMAIN fields[other] :
             OccOf(fields', occ', self, n) =
                OccOf(fields, occ, self, n) \cup OccOf(fields, occ, other, n)
       /\ \A n \in DOMAIN fields[other] \ DOMAIN fields[self] :
             /\ OccOf(fields', occ', self, n) = OccOf(fields, occ, other, n)
             /\ CachedOf(fields', self, n) = CachedOf(fields, other, n)
       /\ \A n \in DOMAIN fields[self] \ DOMAIN fields[other] :
             /\ OccOf(fields', occ', self, n) = OccOf(fields, occ, self, n)
             /\ CachedOf(fields', self, n) = CachedOf(fields, self, n)
       /\ self # other =>
             /\ DOMAIN fields'[other] = DOMAIN fields[other]
             /\ \A n \in DOMAIN fields[other] :
                   /\ OccOf(fields', occ', other, n) = OccOf(fields, occ, other, n)
                   /\ CachedOf(fields', other, n) = CachedOf(fields, other, n)

\* resolved types after self.Merge(other)
FieldsMergeResolvedType ==
    LET self == last'.self
        other == last'.other
    IN \A n \in DOMAIN fields[self] \cap DOMAIN fields[other] :
          \A after \in GetType(fields'[self][n], occ') :
              after = LatticeJoin(OccOf(fields, occ, self, n) \cup OccOf(fields, occ, other, n))

\* C9: after self.Merge(other): self holds the names of both; a name of both
\* has the union of the two occurrence sets, so it resolves to the lattice
\* join of both; a name only in other has other's occurrence set and cached
\* type; a name only in self is unchanged; other is unchanged.
C9_FieldsMergePost ==
    [][last'.op = "Merge" => (FieldsMergeStructure /\ FieldsMergeResolvedType)]_vars

\* the same statement without the resolved types: it holds of every Merge
FieldsMergeStructureHolds ==
    [][last'.op = "Merge" => FieldsMergeStructure]_vars

\* C10: after self.Add(other): every name self had keeps its occurrence set,
\* cached type and resolved type, also when other has the name with another
\* type; every name of other that self lacked is inserted with other's entry;
\* no name is removed.
C10_FieldsAddPost ==
    [][last'.op = "Add" =>
        LET self == last'.self
            other == last'.other
        IN /\ DOMAIN fields'[self] = DOMAIN fields[self] \cup DOMAIN fields[other]
           /\ \A n \in DOMAIN fields[self] :
                 /\ OccOf(fields', occ', self, n) = OccOf(fields, occ, self, n)
                 /\ CachedOf(fields', self, n) = CachedOf(fields, self, n)
                 /\ GetType(fields'[self][n], occ') = GetType(fields[self][n], occ)
           /\ \A n \in DOMAIN fields[other] \ DOMAIN fields[self] :
                 /\ OccOf(fields', occ', self, n) = OccOf(fields, occ, other, n)
                 /\ CachedOf(fields', self, n) = CachedOf(fields, other, n)
                 /\ fields'[self][n].sqlTypeSuggestion = fields[other][n].sqlTypeSuggestion]_vars

C10_Witness ==
    /\ AddDone
    /\ \E n \in DOMAIN fields[last.self] \cap DOMAIN fields[last.other] :
          /\ fields[last.self][n].typeOccurrence # fields[last.other][n].typeOccurrence
          /\ GetType(fields[last.self][n], occ) # GetType(fields[last.other][n], occ)
    /\ \E n \in DOMAIN fields[last.self] \cap DOMAIN fields[last.other] :
          fields[last.self][n].typeOccurrence = fields[last.other][n].typeOccurrence

\* self.OverrideTypes(other) has just returned
OverrideTypesDone == last.op = "OverrideTypes"

\* C11: after self.OverrideTypes(other): self holds the names it held; a
\* name of both has other's occurrence set and other's cached type; a name
\* only in self keeps its occurrence set and cached type; no name that only
\* other holds is added.
C11_OverrideTypesPost ==
    [][last'.op = "OverrideTypes" =>
        LET self == last'.self
            other == last'.other
        IN /\ DOMAIN fields'[self] = DOMAIN fields[self]
           /\ \A n \in DOMAIN fields[self] \cap DOMAIN fields[other] :
                 /\ OccOf(fields', occ', self, n) = OccOf(fields, occ, other, n)
                 /\ CachedOf(fields', self, n) = CachedOf(fields, other, n)
           /\ \A n \in DOMAIN fields[self] \ DOMAIN fields[other] :
                 /\ OccOf(fields', occ', self, n) = OccOf(fields, occ, self, n)
                 /\ CachedOf(fields', self, n) = CachedOf(fields, self, n)
           /\ \A n \in DOMAIN fields[other] \ DOMAIN fields[self] :
                 n \notin DOMAIN fields'[self]]_vars

C11_Witness ==
    /\ OverrideTypesDone
    /\ last.self # last.other
    /\ \E n \in DOMAIN fields[last.self] \cap DOMAIN fields[last.other] :
          /\ fields[last.self][n].typeOccurrence = fields[last.other][n].typeOccurrence
          /\ CachedOf(fields, last.self, n) = NilType
    /\ DOMAIN fields[last.other] \ DOMAIN fields[last.self] # {}

\* the step leaves the names, occurrence sets and cached types of the
\* variable i as they were
FieldsUnchanged(i) ==
    /\ DOMAIN fields'[i] = DOMAIN fields[i]
    /\ \A n \in DOMAIN fields[i] :
          /\ OccOf(fields', occ', i, n) = OccOf(fields, occ, i, n)
          /\ CachedOf(fields', i, n) = CachedOf(fields, i, n)

\* C12: after c = f.Clone(), a Merge, Add or OverrideTypes applied to c, in
\* a sequence of such operations on c, leaves the names, occurrence sets and
\* cached types of f unchanged, and one applied to f, in a sequence of such
\* operations on f, leaves those of c unchanged.
C12_CloneIndependent ==
    [][/\ (cloneOf' # NoClone /\ cloneOf'.side = "into") => FieldsUnchanged(cloneOf'.src)
       /\ (cloneOf' # NoClone /\ cloneOf'.side = "src") => FieldsUnchanged(cloneOf'.into)]_vars

\* into = self.Clone() has just returned: no typeOccurrence map of into is
\* held by another variable
CloneSharesNoMap ==
    last.op = "Clone" =>
        \A n \in DOMAIN fields[last.other] :
            \A j \in Inst \ {last.other} : \A m \in DOMAIN fields[j] :
                fields[j][m].typeOccurrence # fields[last.other][n].typeOccurrence

\* C13: a GetType on a Field whose cached type is unresolved and whose
\* occurrence set is not empty stores the type it returns in the cache of
\* that Field.
C13_GetTypeStoresCache ==
    [][(/\ last'.op = "GetType"
        /\ CachedOf(fields, last'.self, last'.name) = NilType
        /\ OccOf(fields, occ, last'.self, last'.name) # {})
            => CachedOf(fields', last'.self, last'.name) = last'.ret]_vars

\* C18: every Field stored in a Fields variable has a non-empty occurrence
\* set, whatever NewField, NewFieldWithSQLType, Merge, Add, OverrideTypes
\* and Clone have been applied.
C18_OccurrenceNeverEmpty ==
    \A i \in Inst : \A n \in DOMAIN fields[i] : OccOf(fields, occ, i, n) # {}

C18_Witness ==
    /\ last.op = "Clone"
    /\ \E n \in DOMAIN fields[last.other] :
          /\ Cardinality(OccOf(fields, occ, last.other, n)) = 2
          /\ fields[last.self][n].sqlTypeSuggestion # NilSuggestion
    /\ C18_OccurrenceNeverEmpty

\* the join is commutative, associative and idempotent, and STRING absorbs
JoinLaws ==
    \A a, b, c \in DataTypes :
        /\ GetCommonAncestorType(a, b) = GetCommonAncestorType(b, a)
        /\ GetCommonAncestorType(a, GetCommonAncestorType(b, c)) =
              GetCommonAncestorType(GetCommonAncestorType(a, b), c)
        /\ GetCommonAncestorType(a, a) = a
        /\ GetCommonAncestorType(a, "STRING") = "STRING"

\* C19: for a Field with an unresolved cache and a non-empty occurrence set,
\* GetType returns the same type for every enumeration order of the set,
\* the join of its kinds, so a call returns what any other call on the same
\* state returns; the join is commutative, associative and idempotent and
\* STRING absorbs.
C19_GetTypeOrderIndependent ==
    /\ JoinLaws
    /\ \A i \in Inst : \A n \in DOMAIN fields[i] :
          (CachedOf(fields, i, n) = NilType /\ OccOf(fields, occ, i, n) # {}) =>
              GetType(fields[i][n], occ) = {LatticeJoin(OccOf(fields, occ, i, n))}
    /\ (/\ last.op = "GetType"
        /\ CachedOf(fields, last.self, last.name) = NilType
        /\ OccOf(fields, occ, last.self, last.name) # {})
            => last.ret = LatticeJoin(OccOf(fields, occ, last.self, last.name))

C19_Witness ==
    /\ last.op = "GetType"
    /\ CachedOf(fields, last.self, last.name) = NilType
    /\ OccOf(fields, occ, last.self, last.name) = {"INT64", "TIMESTAMP"}
    /\ last.ret = "STRING"

\* C20: the variables share no mutable state: a Merge, Add or OverrideTypes
\* applied to one variable changes the occurrence set of no field of any
\* other variable.  (Two variables come to hold the same typeOccurrence map
\* only through an earlier Merge, Add or OverrideTypes between them.)
C20_NoSharedState ==
    [][last'.op \in {"Merge", "Add", "OverrideTypes"} =>
        \A j \in Inst \ {last'.self} : \A n \in DOMAIN fields[j] :
            /\ n \in DOMAIN fields'[j]
            /\ OccOf(fields', occ', j, n) = OccOf(fields, occ, j, n)]_vars

\* into = self.Clone(): into holds the names of self with the occurrence
\* sets and cached types of self
CloneCopiesTypes ==
    [][last'.op = "Clone" =>
        /\ DOMAIN fields'[last'.other] = DOMAIN fields[last'.self]
        /\ \A n \in DOMAIN fields[last'.self] :
              /\ OccOf(fields', occ', last'.other, n) = OccOf(fields, occ, last'.self, n)
              /\ CachedOf(fields', last'.other, n) = CachedOf(fields, last'.self, n)]_vars

\* C21: the Fields returned by Clone equals the source: the same names, and
\* for every name the same occurrence set, cached type and SQL type
\* suggestion, so GetSuggestedSQLType returns on the cloned field what it
\* returns on the source field, for every destination.
C21_CloneEqualsSource ==
    [][last'.op = "Clone" =>
        /\ DOMAIN fields'[last'.other] = DOMAIN fields[last'.self]
        /\ \A n \in DOMAIN fields[last'.self] :
              /\ OccOf(fields', occ', last'.other, n) = OccOf(fields, occ, last'.self, n)
              /\ CachedOf(fields', last'.other, n) = CachedOf(fields, last'.self, n)
              /\ fields'[last'.other][n].sqlTypeSuggestion = fields[last'.self][n].sqlTypeSuggestion
              /\ \A d \in DestinationTypes :
                    GetSuggestedSQLType(fields'[last'.other][n], d) =
                        GetSuggestedSQLType(fields[last'.self][n], d)]_vars

(***************************************************************************)
(* Claims about Table.Clone (checked under SpecClone)                      *)
(***************************************************************************)
\* the Columns map and the PKFields set of the table who in the state st
ColumnsOf(st, who) == st.columns[TableOf(st, who).Columns]
PKFieldsOf(st, who) == st.pkFields[TableOf(st, who).PKFields]

\* the other table
OtherTable(who) == IF who = "t" THEN "clone" ELSE "t"

\* a write to a map of one table leaves the maps of the other as they were
PutLeavesOtherTable ==
    tc'.op \in {"PutColumn", "PutPKField"} =>
        /\ ColumnsOf(tc', OtherTable(tc'.who)) = ColumnsOf(tc, OtherTable(tc'.who))
        /\ PKFieldsOf(tc', OtherTable(tc'.who)) = PKFieldsOf(tc, OtherTable(tc'.who))

\* the clone equals the original in every field but Partition
CloneCopiesAllButPartition ==
    tc'.op = "Clone" =>
        /\ tc'.clone.Schema = tc.t.Schema
        /\ tc'.clone.Name = tc.t.Name
        /\ ColumnsOf(tc', "clone") = ColumnsOf(tc, "t")
        /\ PKFieldsOf(tc', "clone") = PKFieldsOf(tc, "t")
        /\ tc'.clone.PrimaryKeyName = tc.t.PrimaryKeyName
        /\ tc'.clone.DeletePkFields = tc.t.DeletePkFields

\* Table.Clone but for the Partition: it holds of every run
TableCloneButPartition ==
    [][CloneCopiesAllButPartition /\ PutLeavesOtherTable]_vars

\* C22: the table Clone returns equals the original in Schema, Name,
\* Columns, PKFields, PrimaryKeyName, Partition and DeletePkFields, and a
\* later write to the Columns map or the PKFields set of one of the two
\* tables does not change those of the other.
C22_TableCloneEqualsOriginal ==
    [][/\ CloneCopiesAllButPartition
       /\ tc'.op = "Clone" => tc'.clone.Partition = tc.t.Partition
       /\ PutLeavesOtherTable]_vars

(***************************************************************************)
(* Claims about MixpanelBulker (checked under SpecMixpanel)                *)
(***************************************************************************)
\* mp.CreateStream has returned
CreateStreamDone == created # NoStream

\* the failure err names the mode: the mode is one of the values formatted
\* into its message
NamesMode(err, mode) == \E k \in 1..Len(err.args) : err.args[k] = mode

\* Upload has returned after making at least one request
UploadReturned == up.pc = "returned" /\ up.attempts # <<>>

\* the status of the last request Upload made
LastStatus == up.attempts[Len(up.attempts)]

\* C14: CreateStream returns a stream only for the mode Batch; for Stream,
\* ReplaceTable, ReplacePartition and any other mode it returns no stream
\* and a failure that names the rejected mode.
C14_RejectionNamesMode ==
    CreateStreamDone =>
        /\ created.stream => created.mode = Batch
        /\ created.mode # Batch =>
              /\ ~created.stream
              /\ created.err # NilError
              /\ NamesMode(created.err, created.mode)

\* C14, as the code has it: CreateStream returns a stream only for the mode
\* Batch; for every other mode it returns no stream and a failure; the
\* failure of Stream, ReplaceTable and ReplacePartition is the fixed text
\* MixpanelUnsupported, which names no rejected mode, and only the failure
\* of a value outside the four modes names that value.
C14_RejectsAllButBatch ==
    CreateStreamDone =>
        /\ created.stream => (created.mode = Batch /\ created.err = NilError)
        /\ created.mode # Batch =>
              /\ ~created.stream
              /\ created.err # NilError
              /\ IF created.mode \in {Stream, ReplaceTable, ReplacePartition}
                 THEN created.err = ErrorsNew(MixpanelUnsupported)
                 ELSE NamesMode(created.err, created.mode)

C14_Witness ==
    /\ CreateStreamDone
    /\ created.mode = ReplacePartition
    /\ ~created.stream
    /\ created.err = ErrorsNew(MixpanelUnsupported)

\* C15: Upload makes at most five requests; while every request so far was
\* answered 503 it has waited the delays 100, 200, 200, 500, 0 ms in turn,
\* one after each request, and goes on until the fifth; after five 503 it
\* makes no sixth request and returns status 503 with a non-nil failure.
C15_FiveAttempts ==
    /\ Len(up.attempts) <= 5
    /\ (\A k \in 1..Len(up.attempts) : up.attempts[k] = 503) =>
          /\ up.slept = SubSeq(<<100, 200, 200, 500, 0>>, 1, Len(up.attempts))
          /\ (up.attempts # <<>> /\ Len(up.attempts) < 5) => up.pc = "loop"
          /\ Len(up.attempts) = 5 =>
                /\ up.pc = "returned"
                /\ up.statusCode = 503
                /\ up.err # NilError

C15_Witness ==
    /\ up.pc = "returned"
    /\ up.attempts = <<503, 503, 503, 503, 503>>
    /\ up.slept = <<100, 200, 200, 500, 0>>
    /\ up.statusCode = 503
    /\ up.err # NilError

\* C16: Upload does not return on a request that is not the fifth and that
\* ended in a transport error or in a status from 500 to 599.
C16_RetriesEvery5xx ==
    (UploadReturned /\ Len(up.attempts) < 5) =>
        /\ LastStatus # 0
        /\ LastStatus \notin 500..599

\* C17: a request answered 4xx is the last one Upload makes: Upload returns
\* that status at once, with a nil error when the status is 400 and the body
\* holds the validation text, and with a non-nil error otherwise.
C17_NoRetryOn4xx ==
    \A k \in 1..Len(up.attempts) :
        up.attempts[k] \in 400..499 =>
            /\ k = Len(up.attempts)
            /\ up.pc = "returned"
            /\ up.statusCode = up.attempts[k]
            /\ up.err = NilError <=> (up.statusCode = 400 /\ FailedValidation(up.respBody))

C17_Witness ==
    /\ UploadReturned
    /\ up.attempts = <<503, 400>>
    /\ FailedValidation(up.respBody)
    /\ up.statusCode = 400
    /\ up.err = NilError

(***************************************************************************)
(* Claims about ClickhouseEventsLog (checked under SpecEventsLog)          *)
(***************************************************************************)
\* the events of a sequence of batches, in order
RECURSIVE Flatten(_)
Flatten(batches) ==
    IF batches = <<>> THEN <<>> ELSE Head(batches) \o Flatten(Tail(batches))

\* the events PostAsync has appended so far, in the order in which it
\* acquired the mutex: a caller that holds the mutex has not appended yet
Appended ==
    IF \E p \in Posters : el.posters[p] = "locked"
    THEN SubSeq(el.acquired, 1, Len(el.acquired) - 1)
    ELSE el.acquired

\* the events of the sequence s
Events(s) == {s[k] : k \in 1..Len(s)}

\* C23: under every interleaving of PostAsync calls and flushes, the batches
\* taken so far followed by the buffer are exactly the appended events, each
\* once, in the order in which PostAsync acquired the mutex; so no event is
\* in two batches, none stays in the buffer after it was copied, and none
\* posted while a flush is sending is removed by that flush.  The nil event
\* is never buffered.
C23_EachEventInOneBatch ==
    /\ Flatten(el.taken) \o el.eventsBuffer = Appended
    /\ \A j, k \in 1..Len(Appended) : Appended[j] = Appended[k] => j = k
    /\ NilEvent \notin Events(Appended)
    /\ el.flusher = "send" => el.bufferCopy = el.taken[Len(el.taken)]

C23_Witness ==
    /\ el.flusher = "send"
    /\ Len(el.taken) = 2
    /\ el.eventsBuffer # <<>>
    /\ el.posters[NilEvent] = "returned"

\* C24: an appended event is in the buffer, in the batch being sent, or in
\* a batch the connection accepted, whatever PrepareBatch, Append and Send
\* return; and no event stays in the buffer once the goroutine has returned
\* after a Close.
C24_EventsLeaveOnlyBySend ==
    /\ Events(Appended) \subseteq
          Events(el.eventsBuffer) \cup Events(el.bufferCopy) \cup Events(Flatten(el.sent))
    /\ el.flusher = "exited" => el.eventsBuffer = <<>>

\* the first half alone: events are lost though no Close is called
C24_NoEventDropped ==
    Events(Appended) \subseteq
        Events(el.eventsBuffer) \cup Events(el.bufferCopy) \cup Events(Flatten(el.sent))

\* the second half alone: events are stranded by Close
C24_NoEventStranded ==
    el.flusher = "exited" => el.eventsBuffer = <<>>

\* C25: no call of Close waits at the send on closeChan when the goroutine
\* that receives from it has returned, so every call of Close can return;
\* and no flush runs once a Close has returned.
C25_CloseReturns ==
    /\ \A c \in Closers : ~(el.closers[c] = "send" /\ el.flusher = "exited")
    /\ (\E c \in Closers : el.closers[c] = "returned") => el.flusher = "exited"

\* the second half alone: no flush runs once a Close has returned
NoFlushAfterClose ==
    (\E c \in Closers : el.closers[c] \in {"sent", "returned"}) => el.flusher = "exited"

\* the goroutine of Start, once it has returned, runs no more
FlusherExitIsFinal ==
    [][el.flusher = "exited" => el'.flusher = "exited"]_vars

(***************************************************************************)
(* MixpanelBulker.Close against Upload (checked under SpecMixpanel)        *)
(***************************************************************************)
\* an Upload called after Close has returned makes no request and fails
UploadAfterCloseFails ==
    [][(mp.closed /\ up.pc \in {"idle", "returned"} /\ up' # up) =>
            /\ up'.pc = "returned"
            /\ up'.attempts = <<>>
            /\ up'.err # NilError]_vars

\* C26: once Close has returned the bulker makes no request: an Upload
\* called after it fails without a request, and an Upload that has made
\* an attempt and is in its retry loop makes no further attempt.
C26_NoRequestAfterClose ==
    [][mp.closed =>
            /\ (up.pc = "loop" /\ up.attempts # <<>>) => up'.attempts = up.attempts
            /\ (up.pc \in {"idle", "returned"} /\ up' # up) =>
                  /\ up'.pc = "returned"
                  /\ up'.attempts = <<>>
                  /\ up'.err # NilError]_vars

====
